---- MODULE Spec2Model ----
(***************************************************************************)
(* A model of gradio-edit.py: the Gradio handler generate_image_with_gemini *)
(* (validate, call the remote model, classify the response, save the image *)
(* under TEMP_DIR) and the handler clear_temp_folder (delete every regular  *)
(* file of TEMP_DIR).                                                       *)
(*                                                                         *)
(* Python values are represented as follows.                               *)
(*   None / a value v      the sequences <<>> and <<v>> (NoneV, Some(v))    *)
(*   the prompt            a sequence of characters, so that strip() is    *)
(*                         computed character by character                 *)
(*   an error message      a sequence of text fragments, so that the       *)
(*                         f-string of line 107 is a concatenation         *)
(*   image bytes           "png_A", "jpg_B", "png_B": encoding and picture  *)
(***************************************************************************)
EXTENDS Integers, Sequences, FiniteSets, TLC

VARIABLES api_key, clock, fs, call, result, cl, succession

\* api_key     the GEMINI_API_KEY read at start-up (line 12)
\* clock       int(time.time()), in seconds
\* fs          the entries of TEMP_DIR: name -> file with its bytes, directory
\*             or nothing
\* call        the last click on Generate: its inputs, the payload sent to the
\*             model and its reply (if the model was called), the path saved
\* result      what that call returned or raised
\* cl          per cleanup thread: its place in clear_temp_folder, the names
\*             of the listing still to visit, count, its last status, and
\*             whether a generation or another run overlapped it
\* succession  the statuses of the last cleanup runs that followed one another
\*             with nothing in between
vars == <<api_key, clock, fs, call, result, cl, succession>>

----------------------------------------------------------------------------
(* Bounds of the model *)

\* largest number of content parts in one response
MaxParts == 2
\* the clock runs over the seconds 0..MaxTime
MaxTime == 1

----------------------------------------------------------------------------
(* Python's None and optional values *)

NoneV == <<>>

Some(v) == <<v>>

IsNone(o) == Len(o) = 0

Get(o) == o[1]

\* all sequences over S of length at most n
SeqUpTo(S, n) == UNION {[1..k -> S] : k \in 0..n}

----------------------------------------------------------------------------
(* The prompt: str.strip() and truthiness, line 54 *)

Whitespace == {" ", "\n"}

RECURSIVE LStrip(_)
LStrip(s) ==
    IF s = <<>> THEN s
    ELSE IF Head(s) \in Whitespace THEN LStrip(Tail(s)) ELSE s

RECURSIVE RStrip(_)
RStrip(s) ==
    IF s = <<>> THEN s
    ELSE IF s[Len(s)] \in Whitespace THEN RStrip(SubSeq(s, 1, Len(s) - 1)) ELSE s

Strip(s) == RStrip(LStrip(s))

\* identity instead of strip(): a whitespace-only prompt counts as a prompt
PromptMissingNoStrip(prompt) ==
    IsNone(prompt) \/ Get(prompt) = <<>>

\* `not prompt or not prompt.strip()`
PromptMissing(prompt) ==
    IsNone(prompt) \/ Get(prompt) = <<>> \/ Strip(Get(prompt)) = <<>>

\* the prompt is looked at before the key
PrecheckPromptFirst(key, prompt) ==
    IF PromptMissing(prompt) THEN "prompt"
    ELSE IF IsNone(key) \/ Get(key) = "" THEN "api_key"
    ELSE "ok"

\* lines 52-55: which gr.Error the two leading checks raise, if any
Precheck(key, prompt) ==
    IF IsNone(key) \/ Get(key) = "" THEN "api_key"
    ELSE IF PromptMissing(prompt) THEN "prompt"
    ELSE "ok"

MsgNoKey ==
    <<"GEMINI_API_KEY environment variable has not been set. Please set it and restart the application.">>

MsgNoPrompt == <<"Please enter a prompt.">>

\* lines 59-62: the payload sent to the model
ApiContents(prompt, source_image) ==
    IF IsNone(source_image) THEN <<Get(prompt)>>
    ELSE <<Get(prompt), Get(source_image)>>

----------------------------------------------------------------------------
(* The response of client.models.generate_content *)

ImageBytes == {"png_A", "jpg_B"}

Texts == {"", "A red balloon in the sky.", "Sorry."}

\* a part carries inline data, or text, or neither (never both)
PartNeither == [inline_data |-> NoneV, text |-> NoneV]

ImagePart(b) == [inline_data |-> Some([data |-> b]), text |-> NoneV]

TextPart(t) == [inline_data |-> NoneV, text |-> Some(t)]

Parts ==
    {PartNeither} \cup {ImagePart(b) : b \in ImageBytes} \cup {TextPart(t) : t \in Texts}

RespOfParts(ps) ==
    [candidates |-> Some(<<[content |-> Some([parts |-> Some(ps)])]>>)]

\* response.candidates is None, e.g. a blocked prompt
RespCandidatesNone == [candidates |-> NoneV]

RespCandidatesEmpty == [candidates |-> Some(<<>>)]

RespContentNone == [candidates |-> Some(<<[content |-> NoneV]>>)]

RespPartsNone == [candidates |-> Some(<<[content |-> Some([parts |-> NoneV])]>>)]

Responses ==
    {RespOfParts(ps) : ps \in SeqUpTo(Parts, MaxParts)}
        \cup {RespCandidatesNone, RespCandidatesEmpty, RespContentNone, RespPartsNone}

\* exceptions: the text str(e) gives is the fragments Str(e)
Fault(structured, code, status, message) ==
    [structured |-> structured, code |-> code, status |-> status, message |-> message]

RateLimited == Fault(TRUE, "429", "RESOURCE_EXHAUSTED", "rate limited")

ServerFault == Fault(TRUE, "500", "INTERNAL", "internal error")

TransportFault == Fault(FALSE, "", "", "connection refused")

RemoteFaults == {RateLimited, ServerFault, TransportFault}

\* what the remote call does: returns a response or raises
Returns(r) == [raises |-> FALSE, response |-> r, fault |-> TransportFault]

Raises(e) == [raises |-> TRUE, response |-> RespCandidatesNone, fault |-> e]

Remotes == {Returns(r) : r \in Responses} \cup {Raises(e) : e \in RemoteFaults}

----------------------------------------------------------------------------
(* TEMP_DIR, lines 17-19 and 79-83 *)

\* f"generated_image_{timestamp}.png" under TEMP_DIR
GenName(timestamp) == "generated_image_" \o ToString(timestamp) \o ".png"

\* a file some other program left in TEMP_DIR, and a subdirectory of it
ForeignFile == "notes.txt"

SubDir == "cache"

Names == {GenName(t) : t \in 0..MaxTime} \cup {ForeignFile, SubDir}

Absent == [kind |-> "none", data |-> ""]

File(data) == [kind |-> "file", data |-> data]

Dir == [kind |-> "dir", data |-> ""]

\* Image.open(BytesIO(data)): the picture the bytes encode
ImageOpen(data) == IF data = "png_A" THEN "A" ELSE "B"

\* result_image.save(path) with a .png path: the PNG encoding of the picture
SavePng(picture) == "png_" \o picture

----------------------------------------------------------------------------
(* generate_image_with_gemini, lines 47-107 *)

\* gr.update(visible=..., value=...); value NoneV when the keyword is not given
Update(visible, value) == [visible |-> visible, value |-> value]

NoUpdate == Update(FALSE, NoneV)

NoResult ==
    [kind |-> "none", message |-> <<>>, output_image |-> NoneV,
     download_btn |-> NoUpdate, text_output_box |-> NoUpdate, status_box |-> ""]

\* the 4-tuple the handler returns
Returned(image, download, textbox, status) ==
    [kind |-> "returned", message |-> <<>>, output_image |-> image,
     download_btn |-> download, text_output_box |-> textbox, status_box |-> status]

\* raise gr.Error(message)
Raised(message) == [NoResult EXCEPT !.kind = "raised", !.message = message]

Str(e) == IF e.structured THEN <<e.code, e.status, e.message>> ELSE <<e.message>>

\* the details are left out of the message
ApiErrorMessageNoDetails(e) == <<"An API error occurred.">>

\* line 107: f"An API error occurred. Details: {str(e)}"
ApiErrorMessage(e) == <<"An API error occurred. Details: ">> \o Str(e)

\* no break: the last part with inline data is taken
RECURSIVE LastInlineData(_)
LastInlineData(parts) ==
    IF parts = <<>> THEN NoneV
    ELSE IF ~IsNone(parts[Len(parts)].inline_data)
         THEN Some(Get(parts[Len(parts)].inline_data).data)
         ELSE LastInlineData(SubSeq(parts, 1, Len(parts) - 1))

\* lines 71-75: the data of the first part whose inline_data is not None
RECURSIVE FirstInlineData(_)
FirstInlineData(parts) ==
    IF parts = <<>> THEN NoneV
    ELSE IF ~IsNone(Head(parts).inline_data)
         THEN Some(Get(Head(parts).inline_data).data)
         ELSE FirstInlineData(Tail(parts))

\* line 95: next((p.text for p in parts if p.text is not None), None)
RECURSIVE FirstText(_)
FirstText(parts) ==
    IF parts = <<>> THEN NoneV
    ELSE IF ~IsNone(Head(parts).text) THEN Head(parts).text
         ELSE FirstText(Tail(parts))

Fallback == "The model did not return an image or text."

\* lines 93-97, reached with a response whose parts were iterated at line 72
TextResponse(response) ==
    LET candidates == Get(response.candidates)
        parts == Get(Get(candidates[1].content).parts)
    IN  IF candidates # <<>> /\ parts # <<>>
        THEN LET text_part == FirstText(parts)
             IN  IF ~IsNone(text_part) /\ Get(text_part) # ""
                 THEN Get(text_part) ELSE Fallback
        ELSE Fallback

\* line 72: the exception `response.candidates[0].content.parts` or its
\* iteration raises, if any
PartsFault(response) ==
    IF IsNone(response.candidates)
    THEN Some(Fault(FALSE, "", "", "'NoneType' object is not subscriptable"))
    ELSE IF Get(response.candidates) = <<>>
    THEN Some(Fault(FALSE, "", "", "list index out of range"))
    ELSE IF IsNone(Get(response.candidates)[1].content)
    THEN Some(Fault(FALSE, "", "", "'NoneType' object has no attribute 'parts'"))
    ELSE IF IsNone(Get(Get(response.candidates)[1].content).parts)
    THEN Some(Fault(FALSE, "", "", "'NoneType' object is not iterable"))
    ELSE NoneV

PartsOf(response) == Get(Get(Get(response.candidates)[1].content).parts)

\* the handler's effect: what it returns or raises, the payload it sent (if it
\* called the model) and the file it wrote (if any)
Effect(res, sent, path, data) ==
    [result |-> res, sent |-> sent, saved |-> path, data |-> data]

\* lines 71-103: the body of the try block after the remote call returned
Classify(response, sent, timestamp) ==
    IF ~IsNone(PartsFault(response))
    THEN Effect(Raised(ApiErrorMessage(Get(PartsFault(response)))), sent, NoneV, "")
    ELSE LET generated_image_data == FirstInlineData(PartsOf(response))
         IN  IF ~IsNone(generated_image_data)
             THEN LET result_image == ImageOpen(Get(generated_image_data))
                      output_filepath == GenName(timestamp)
                  IN  Effect(Returned(Some(result_image),
                                      Update(TRUE, Some(output_filepath)),
                                      Update(FALSE, Some("")),
                                      "Image generated successfully!"),
                             sent, Some(output_filepath), SavePng(result_image))
             ELSE Effect(Returned(NoneV,
                                  Update(FALSE, NoneV),
                                  Update(TRUE, Some(TextResponse(response))),
                                  "Text analysis complete."),
                         sent, NoneV, "")

\* lines 52-107
Dispatch(key, prompt, source_image, remote, timestamp) ==
    LET pre == Precheck(key, prompt)
    IN  IF pre = "api_key" THEN Effect(Raised(MsgNoKey), NoneV, NoneV, "")
        ELSE IF pre = "prompt" THEN Effect(Raised(MsgNoPrompt), NoneV, NoneV, "")
        ELSE LET api_contents == Some(ApiContents(prompt, source_image))
             IN  IF remote.raises
                 THEN Effect(Raised(ApiErrorMessage(remote.fault)), api_contents, NoneV, "")
                 ELSE Classify(remote.response, api_contents, timestamp)

NoCall ==
    [made |-> FALSE, prompt |-> NoneV, source_image |-> NoneV, sent |-> NoneV,
     remote |-> NoneV, saved |-> NoneV]

\* one click on Generate: the whole handler.  `call` records the inputs and
\* what the handler did with the outside world; the reply of the model is
\* recorded only when the model was called.
Generate(prompt, source_image, remote) ==
    \E eff \in {Dispatch(api_key, prompt, source_image, remote, clock)} :
        /\ result' = eff.result
        /\ call' = [made |-> TRUE, prompt |-> prompt, source_image |-> source_image,
                    sent |-> eff.sent,
                    remote |-> IF IsNone(eff.sent) THEN NoneV ELSE Some(remote),
                    saved |-> eff.saved]
        /\ fs' = IF IsNone(eff.saved) THEN fs
                 ELSE [fs EXCEPT ![Get(eff.saved)] = File(eff.data)]
        /\ cl' = [w \in DOMAIN cl |->
                    IF cl[w].pc = "idle" THEN cl[w]
                    ELSE [cl[w] EXCEPT !.disturbed = TRUE]]
        /\ succession' = <<>>
        /\ UNCHANGED <<api_key, clock>>

\* line 79: time.time() moves on to the next second
Tick ==
    /\ clock < MaxTime
    /\ clock' = clock + 1
    /\ UNCHANGED <<api_key, fs, call, result, cl, succession>>

----------------------------------------------------------------------------
(* clear_temp_folder, lines 24-42 *)

\* the threads that run the handler (the handler takes no lock, and a second
\* instance of the program has the same TEMP_DIR)
W1 == "w1"

W2 == "w2"

Workers == {W1, W2}

NoStatus == [kind |-> "none", count |-> 0, error |-> "", file |-> ""]

\* any count is reported as cleared
SummaryNeverEmpty(count) ==
    [kind |-> "cleared", count |-> count, error |-> "", file |-> ""]

\* lines 35-38: "Cleared {count} file(s)..." or "Temp directory is already empty."
Summary(count) ==
    [kind |-> IF count > 0 THEN "cleared" ELSE "empty", count |-> count, error |-> "",
     file |-> ""]

\* lines 40-42: "Error clearing temp folder: {e}"; the text of an OSError names
\* the file
ErrorStatus(count, e, file_path) ==
    [kind |-> "error", count |-> count, error |-> e, file |-> file_path]

IdleCleaner ==
    [pc |-> "idle", remaining |-> {}, file_path |-> "", count |-> 0,
     status |-> NoStatus, disturbed |-> FALSE]

Running(w) == cl[w].pc \in {"loop", "remove"}

\* line 31: os.path.isfile(file_path)
IsFile(name) == fs[name].kind = "file"

\* the runs that ended one after the other, no generation and no other run in
\* between; the last two are kept
Succeed(w, status) ==
    IF cl[w].disturbed THEN <<>>
    ELSE IF Len(succession) < 2 THEN Append(succession, status)
    ELSE <<succession[2], status>>

\* the run of w ends with `status`
Finish(w, status) ==
    /\ cl' = [cl EXCEPT ![w].pc = "done", ![w].status = status, ![w].file_path = ""]
    /\ succession' = Succeed(w, status)

\* lines 26-28: a click on Clear Temp Files; os.listdir(TEMP_DIR)
ClearStart(w) ==
    /\ cl[w].pc \in {"idle", "done"}
    /\ LET overlap == \E v \in Workers \ {w} : Running(v)
       IN  cl' = [v \in Workers |->
                    IF v = w
                    THEN [IdleCleaner EXCEPT !.pc = "loop",
                              !.remaining = {n \in Names : fs[n].kind # "none"},
                              !.disturbed = overlap]
                    ELSE IF Running(v) THEN [cl[v] EXCEPT !.disturbed = TRUE]
                    ELSE cl[v]]
    /\ UNCHANGED <<api_key, clock, fs, call, result, succession>>

\* lines 28-31: the next filename of the listing (os.listdir gives the names in
\* arbitrary order) and the isfile test
ClearNext(w) ==
    /\ cl[w].pc = "loop"
    /\ \E filename \in cl[w].remaining :
          cl' = [cl EXCEPT ![w].remaining = @ \ {filename},
                           ![w].pc = IF IsFile(filename) THEN "remove" ELSE "loop",
                           ![w].file_path = IF IsFile(filename) THEN filename ELSE ""]
    /\ UNCHANGED <<api_key, clock, fs, call, result, succession>>

\* lines 32-33: os.remove(file_path) deletes the file; a file that is no longer
\* there raises FileNotFoundError, caught at line 40
ClearRemove(w) ==
    /\ cl[w].pc = "remove"
    /\ IF fs[cl[w].file_path].kind = "file"
       THEN /\ fs' = [fs EXCEPT ![cl[w].file_path] = Absent]
            /\ cl' = [cl EXCEPT ![w].pc = "loop", ![w].count = @ + 1, ![w].file_path = ""]
            /\ UNCHANGED succession
       ELSE /\ Finish(w, ErrorStatus(cl[w].count, "FileNotFoundError", cl[w].file_path))
            /\ UNCHANGED fs
    /\ UNCHANGED <<api_key, clock, call, result>>

\* line 32 and lines 40-42: os.remove(file_path) raises (permissions, I/O); the
\* one except clause around the loop ends the run
ClearRemoveFails(w) ==
    /\ cl[w].pc = "remove"
    /\ fs[cl[w].file_path].kind = "file"
    /\ Finish(w, ErrorStatus(cl[w].count, "PermissionError", cl[w].file_path))
    /\ UNCHANGED <<api_key, clock, fs, call, result>>

\* lines 35-38: the listing is exhausted
ClearReturn(w) ==
    /\ cl[w].pc = "loop"
    /\ cl[w].remaining = {}
    /\ Finish(w, Summary(cl[w].count))
    /\ UNCHANGED <<api_key, clock, fs, call, result>>

----------------------------------------------------------------------------
(* The program *)

\* line 12: os.environ.get("GEMINI_API_KEY")
ApiKeys == {NoneV, Some(""), Some("secret")}

\* what the prompt box holds at the click: nothing, blanks, a word, a word
\* between blanks
Prompts ==
    {NoneV, Some(<<>>), Some(<<" ">>), Some(<<" ", "\n">>), Some(<<"a">>),
     Some(<<" ", "a", "\n">>)}

SourceImages == {NoneV, Some("photo")}

\* lines 12-20: the key is read, TEMP_DIR exists and holds whatever it held
Init ==
    /\ api_key \in ApiKeys
    /\ clock = 0
    /\ fs = [n \in Names |->
               IF n = ForeignFile THEN File("text")
               ELSE IF n = SubDir THEN Dir ELSE Absent]
    /\ call = NoCall
    /\ result = NoResult
    /\ cl = [w \in Workers |-> IdleCleaner]
    /\ succession = <<>>

\* lines 141-146: a click on Generate with any prompt, any image, any reply
\* (the reply is drawn only when the two leading checks let the call through)
GenerateAny ==
    \E prompt \in Prompts, source_image \in SourceImages :
        \E remote \in IF Precheck(api_key, prompt) = "ok" THEN Remotes
                       ELSE {Raises(TransportFault)} :
            Generate(prompt, source_image, remote)

\* a click on Generate that is answered with one image
GenerateImage ==
    \E b \in ImageBytes :
        Generate(Some(<<"a">>), NoneV, Returns(RespOfParts(<<ImagePart(b)>>)))

\* the dispatcher alone, within one second
NextDispatch == GenerateAny

SpecDispatch == Init /\ [][NextDispatch]_vars

\* image generations and one cleanup thread
NextTemp ==
    \/ GenerateImage
    \/ Tick
    \/ ClearStart(W1)
    \/ ClearNext(W1)
    \/ ClearRemove(W1)
    \/ ClearRemoveFails(W1)
    \/ ClearReturn(W1)

SpecTemp == Init /\ [][NextTemp]_vars

\* two cleanup threads within one second
NextConc ==
    \/ GenerateImage
    \/ \E w \in Workers :
          \/ ClearStart(w)
          \/ ClearNext(w)
          \/ ClearRemove(w)
          \/ ClearRemoveFails(w)
          \/ ClearReturn(w)

SpecConc == Init /\ [][NextConc]_vars

----------------------------------------------------------------------------
(* The claims *)

Contains(seq, x) == \E i \in DOMAIN seq : seq[i] = x

KeyAbsent == IsNone(api_key) \/ Get(api_key) = ""

\* the model was called and returned a response
Replied == call.made /\ ~IsNone(call.remote) /\ ~Get(call.remote).raises

Reply == Get(call.remote).response

\* the response has a list of parts
HasPartList(r) ==
    /\ ~IsNone(r.candidates)
    /\ Get(r.candidates) # <<>>
    /\ ~IsNone(Get(r.candidates)[1].content)
    /\ ~IsNone(Get(Get(r.candidates)[1].content).parts)

ReplyParts == Get(Get(Get(Reply.candidates)[1].content).parts)

IsImagePart(p) == ~IsNone(p.inline_data)

IsTextPart(p) == IsNone(p.inline_data) /\ ~IsNone(p.text)

NonEmptyText(p) == IsTextPart(p) /\ Get(p.text) # ""

\* the index of the first part of ps that satisfies Is
FirstIndex(ps, Is(_)) ==
    CHOOSE i \in DOMAIN ps : Is(ps[i]) /\ \A j \in 1..(i - 1) : ~Is(ps[j])

BlankPrompt(prompt) ==
    IsNone(prompt) \/ \A i \in DOMAIN Get(prompt) : Get(prompt)[i] \in Whitespace

NoRegularFile == \A n \in Names : fs[n].kind # "file"

\* C1: a response with at least one part with inline image data gives an image
\* result built from the first such part in list order, whatever text parts
\* come before or after it; the text pane is hidden and emptied.
C1_FirstImageWins ==
    (Replied /\ HasPartList(Reply) /\ \E i \in DOMAIN ReplyParts : IsImagePart(ReplyParts[i]))
    => LET first == ReplyParts[FirstIndex(ReplyParts, IsImagePart)]
       IN  /\ result.kind = "returned"
           /\ result.output_image = Some(ImageOpen(Get(first.inline_data).data))
           /\ result.text_output_box = Update(FALSE, Some(""))
           /\ result.download_btn.visible
           /\ ~IsNone(call.saved)
           /\ result.download_btn.value = call.saved

\* C1 witness: a text part before the image part, the image is returned
C1_Witness ==
    /\ Replied
    /\ Reply = RespOfParts(<<TextPart("Sorry."), ImagePart("jpg_B")>>)
    /\ result.kind = "returned"
    /\ result.output_image = Some("B")
    /\ result.text_output_box = Update(FALSE, Some(""))

\* C2: a response of text parts only gives a text result whose text is that of
\* the first non-empty text part, also when an earlier text part is empty.
C2_FirstNonEmptyText ==
    (/\ Replied
     /\ HasPartList(Reply)
     /\ \A i \in DOMAIN ReplyParts : IsTextPart(ReplyParts[i])
     /\ \E i \in DOMAIN ReplyParts : NonEmptyText(ReplyParts[i]))
    => /\ result.kind = "returned"
       /\ result.text_output_box =
             Update(TRUE, ReplyParts[FirstIndex(ReplyParts, NonEmptyText)].text)

\* C3: every file an operation writes is a new file: no file that exists is
\* overwritten, so each image result has a file of its own that keeps its image.
C3_NeverOverwrites ==
    [][\A n \in Names :
          (fs'[n].kind = "file" /\ fs'[n] # fs[n]) => fs[n].kind = "none"]_vars

\* C4: a prompt that is empty, None or whitespace-only ends in the gr.Error
\* "Please enter a prompt.", whatever the credential state, with no remote call
\* and no file written.
C4_BlankPromptAnyKey ==
    (call.made /\ BlankPrompt(call.prompt))
    => /\ result = Raised(MsgNoPrompt)
       /\ IsNone(call.sent)
       /\ IsNone(call.saved)

\* C4 as amended: with the credential configured, a prompt that is empty, None
\* or whitespace-only ends in the gr.Error "Please enter a prompt.", with no
\* remote call and no file written.
C4_BlankPromptWithKey ==
    (call.made /\ BlankPrompt(call.prompt) /\ ~KeyAbsent)
    => /\ result = Raised(MsgNoPrompt)
       /\ IsNone(call.sent)
       /\ IsNone(call.saved)

\* C4 witness: a whitespace-only prompt with an image and the key configured
C4_Witness ==
    /\ call.made
    /\ ~KeyAbsent
    /\ call.prompt = Some(<<" ">>)
    /\ ~IsNone(call.source_image)
    /\ result = Raised(MsgNoPrompt)
    /\ IsNone(call.sent)

\* C5: when a cleanup run that nothing interfered with has returned, every
\* regular file whose deletion did not fail has been deleted.
C5_FaultDoesNotAbortBatch ==
    \A w \in Workers :
        (cl[w].pc = "done" /\ ~cl[w].disturbed)
        => \A n \in Names :
              fs[n].kind = "file" => (cl[w].status.kind = "error" /\ cl[w].status.file = n)

\* C6: a response with neither an image part nor a text part (no parts, parts
\* with neither field, or no candidate content at all) gives a text result
\* carrying the fallback message, never an error.
C6_FallbackText ==
    (/\ Replied
     /\ HasPartList(Reply) =>
            \A i \in DOMAIN ReplyParts : ReplyParts[i] = PartNeither)
    => /\ result.kind = "returned"
       /\ result.output_image = NoneV
       /\ result.text_output_box = Update(TRUE, Some(Fallback))

\* C7: a file that is gone when cleanup comes to delete it is not an error:
\* unless a deletion failed for another reason, the run returns a normal
\* summary.
C7_AlreadyGoneIsNoError ==
    \A w \in Workers :
        (cl[w].pc = "done" /\ cl[w].status.error # "PermissionError")
        => cl[w].status.kind \in {"cleared", "empty"}

\* C8: a fault raised by the remote call becomes the gr.Error of that call, the
\* message keeps the fault's code and message, and no result is produced and
\* no file is written.
C8_FaultDetailsKept ==
    (call.made /\ ~IsNone(call.remote) /\ Get(call.remote).raises)
    => LET e == Get(call.remote).fault
       IN  /\ result.kind = "raised"
           /\ Contains(result.message, e.message)
           /\ e.structured => Contains(result.message, e.code)
           /\ result.output_image = NoneV
           /\ result.text_output_box = NoUpdate
           /\ IsNone(call.saved)

\* C8 witness: the fault 429 "rate limited"
C8_Witness ==
    /\ call.made
    /\ call.remote = Some(Raises(RateLimited))
    /\ result.kind = "raised"
    /\ Contains(result.message, "429")
    /\ Contains(result.message, "rate limited")

C10_NoKeyAlwaysFails ==
    (call.made /\ KeyAbsent)
    => /\ result = Raised(MsgNoKey)
       /\ IsNone(call.sent)
       /\ IsNone(call.saved)
       /\ \A t \in 0..MaxTime : fs[GenName(t)] = Absent

\* C10 witness: no key, a blank prompt, an image
C10_Witness ==
    /\ call.made
    /\ IsNone(api_key)
    /\ call.prompt = Some(<<>>)
    /\ ~IsNone(call.source_image)
    /\ result = Raised(MsgNoKey)

====
